---- MODULE Spec2Model ----
(***************************************************************************)
(* Model of the Cloud Functions of myclub-management                       *)
(* (src/unnamed/part_002): the callable calculateTeamStats, the helpers    *)
(* it uses (getAuthContext, hasClubPermission) and the Firestore documents *)
(* it reads and writes (teams, matches, clubs/{id}/members).               *)
(*                                                                         *)
(* A handler runs atomically from one await to the next, so every await of *)
(* the source is one action of the model.  A store operation either fails  *)
(* (its promise rejects and nothing is changed) or takes effect.           *)
(***************************************************************************)
EXTENDS Integers, Sequences, FiniteSets, TLC

\* ------------------------------------------------------------------------
\* Bounds and document domains
\* ------------------------------------------------------------------------

\* Largest number of goals one side scores in a match.
MaxGoals == 1

Goals == 0..MaxGoals

\* Match documents of the collection, in the order a query returns them.
MatchOrder == <<"m1", "m2">>

MatchIds == {MatchOrder[i] : i \in 1..Len(MatchOrder)}

\* Team documents that exist, and the team ids a caller may send.
TeamIds == {"t1", "t2"}

UnknownTeam == "tX"

ClubIds == {"c1", "c2"}

UserIds == {"u1", "u2", "u3"}

\* request.auth of an unauthenticated call.
NoAuth == "no-auth"

\* The value of a property that is not there.
Undefined == "undefined"

\* type MatchStatus
MatchStatus == {"scheduled", "live", "halftime", "finished", "postponed", "cancelled"}

\* type MembershipStatus
MembershipStatus == {"pending", "active", "suspended", "inactive"}

NoMember == "no-document"

\* type MatchResult (homeGoals, awayGoals), or no result field.
NoResult == [present |-> FALSE, homeGoals |-> 0, awayGoals |-> 0]

MatchResult == [present : {TRUE}, homeGoals : Goals, awayGoals : Goals]

\* type Match, the fields the functions read; a match is between two teams.
Match ==
    {m \in [homeTeamId : TeamIds, awayTeamId : TeamIds, status : MatchStatus,
            result : MatchResult \cup {NoResult}] : m.homeTeamId # m.awayTeamId}

NoDoc == [homeTeamId |-> Undefined, awayTeamId |-> Undefined, status |-> Undefined,
          result |-> NoResult]

\* type TeamStats
TeamStats(mp, w, d, l, gf, ga, pts, streakType, streakCount) ==
    [matchesPlayed |-> mp, wins |-> w, draws |-> d, losses |-> l,
     goalsFor |-> gf, goalsAgainst |-> ga, points |-> pts,
     currentStreak |-> [type |-> streakType, count |-> streakCount]]

\* The stats createTeam stores on a new team.
CreatedStats == TeamStats(0, 0, 0, 0, 0, 0, 0, "win", 0)

\* The stats the seed script stores on team fc-beispiel-u17.
SeedStats == TeamStats(3, 2, 1, 0, 8, 3, 7, "win", 1)

NoStats == TeamStats(0, 0, 0, 0, 0, 0, 0, Undefined, 0)

VARIABLES
    matches,    \* collection matches: MatchIds -> Match or NoDoc
    teams,      \* collection teams: TeamIds -> team document
    members,    \* clubs/{clubId}/members/{userId}: membership status or NoMember
    call,       \* the calculateTeamStats invocation that is running
    parked,     \* a second calculateTeamStats invocation, waiting at an await
    clubs,      \* collection clubs: club id -> club document
    users,      \* collection users: UserIds -> user document
    create,     \* the createClub invocation that is running
    parkedCreate, \* a second createClub invocation, waiting at an await
    join,       \* the joinClub invocation that is running
    parkedJoin, \* a second joinClub invocation, waiting at an await
    approvedAt, \* clubs/{clubId}/members/{userId}: the document's approvedAt
    trigger,    \* the onMatchCompleted invocation in progress
    provider    \* the state of the AuthProvider component of one client

vars == <<matches, teams, members, call, parked, clubs, users, create, parkedCreate, join,
          parkedJoin, approvedAt, trigger, provider>>

\* What neither createClub nor joinClub reads or writes.
webState == <<trigger, provider>>

\* What calculateTeamStats neither reads nor writes.
clubState == <<clubs, users, create, parkedCreate, join, parkedJoin, approvedAt, webState>>

\* ------------------------------------------------------------------------
\* Errors and responses
\* ------------------------------------------------------------------------

\* new HttpsError(code, ...)
HttpsError(code) == [cls |-> "HttpsError", code |-> code]

\* The TypeError of destructuring null (const { teamId } = request.data).
TypeError == [cls |-> "TypeError", code |-> "none"]

\* The rejection of a Firestore promise.
StoreError == [cls |-> "FirestoreError", code |-> "unavailable"]

\* What the caller receives: { success: true, stats } or an error code.
Success(stats) == [success |-> TRUE, code |-> "ok", stats |-> stats]

Failure(code) == [success |-> FALSE, code |-> code, stats |-> NoStats]

NoResponse == [success |-> FALSE, code |-> "pending", stats |-> NoStats]

\* A catch block that lets the caught error through as it is.
CatchErrorUnwrapped(error) == error

\* A catch block that reports every error as 'internal', as createClub's does.
CatchErrorAllInternal(error) == HttpsError("internal")

\* The catch block of calculateTeamStats: an HttpsError is rethrown, anything
\* else becomes HttpsError('internal').
CatchError(error) ==
    IF error.cls = "HttpsError" THEN error ELSE HttpsError("internal")

\* ------------------------------------------------------------------------
\* Requests
\* ------------------------------------------------------------------------

\* request.data: null (a call without payload), or an object whose teamId is
\* missing, empty, an existing team or an unknown team.
NullData == [isNull |-> TRUE, teamId |-> Undefined]

RequestData ==
    {NullData} \cup
    [isNull : {FALSE}, teamId : {Undefined, ""} \cup TeamIds \cup {UnknownTeam}]

\* JavaScript's !teamId for the values a teamId takes here.
Falsy(v) == v \in {Undefined, ""}

\* getAuthContext: throws 'unauthenticated' without request.auth.
getAuthContextThrows(auth) == auth = NoAuth

\* The synchronous prefix of the handler, up to the first await: the error it
\* throws, or none.
NoError == [cls |-> "none", code |-> "none"]

ValidateRequest(auth, data) ==
    IF getAuthContextThrows(auth) THEN HttpsError("unauthenticated")
    ELSE IF data.isNull THEN TypeError
    ELSE IF Falsy(data.teamId) THEN HttpsError("invalid-argument")
    ELSE NoError

\* ------------------------------------------------------------------------
\* Store reads
\* ------------------------------------------------------------------------

\* teamDoc.exists
TeamExists(teamId) == teamId \in DOMAIN teams

\* A membership check that accepts any membership document.
MembershipAllowsAnyStatus(status) == status # NoMember

\* hasClubPermission once the membership read has resolved: the document
\* exists and its status is 'active'.
MembershipAllows(status) ==
    IF status = NoMember THEN FALSE ELSE status = "active"

\* A membership check that lets the caller in when the read fails.
hasClubPermissionFailOpen(readFails, userId, clubId) ==
    IF readFails THEN TRUE ELSE members[clubId][userId] = "active"

\* hasClubPermission: a failed read is caught and answered with false.
hasClubPermission(readFails, userId, clubId) ==
    IF readFails THEN FALSE ELSE MembershipAllows(members[clubId][userId])

\* A query without the status filter.
QueryMatchesAnyStatus(doc, field, teamId) == doc # NoDoc /\ doc[field] = teamId

\* where(field, '==', teamId).where('status', '==', 'finished')
QueryMatches(doc, field, teamId) ==
    doc # NoDoc /\ doc[field] = teamId /\ doc.status = "finished"

RECURSIVE Snapshot(_, _, _, _)
\* The documents of collection coll a query returns, in document order.
Snapshot(coll, ids, field, teamId) ==
    IF ids = <<>> THEN <<>>
    ELSE LET rest == Snapshot(coll, Tail(ids), field, teamId)
             doc  == coll[Head(ids)]
         IN  IF QueryMatches(doc, field, teamId) THEN <<doc>> \o rest ELSE rest

\* ------------------------------------------------------------------------
\* Aggregation
\* ------------------------------------------------------------------------

\* let wins = 0, draws = 0, losses = 0, goalsFor = 0, goalsAgainst = 0
ZeroTally == [wins |-> 0, draws |-> 0, losses |-> 0, goalsFor |-> 0, goalsAgainst |-> 0]

\* A home loop that assigns the goals of the match instead of adding them.
HomeTallyAssignsGoals(acc, match) ==
    IF match.result.present
    THEN LET r == match.result IN
         [wins         |-> acc.wins + (IF r.homeGoals > r.awayGoals THEN 1 ELSE 0),
          draws        |-> acc.draws + (IF r.homeGoals = r.awayGoals THEN 1 ELSE 0),
          losses       |-> acc.losses + (IF r.homeGoals < r.awayGoals THEN 1 ELSE 0),
          goalsFor     |-> r.homeGoals,
          goalsAgainst |-> r.awayGoals]
    ELSE acc

\* The body of the forEach over the home matches.
HomeTally(acc, match) ==
    IF match.result.present
    THEN LET r == match.result IN
         [wins         |-> acc.wins + (IF r.homeGoals > r.awayGoals THEN 1 ELSE 0),
          draws        |-> acc.draws + (IF r.homeGoals > r.awayGoals THEN 0
                                        ELSE IF r.homeGoals = r.awayGoals THEN 1 ELSE 0),
          losses       |-> acc.losses + (IF r.homeGoals > r.awayGoals THEN 0
                                         ELSE IF r.homeGoals = r.awayGoals THEN 0 ELSE 1),
          goalsFor     |-> acc.goalsFor + r.homeGoals,
          goalsAgainst |-> acc.goalsAgainst + r.awayGoals]
    ELSE acc

\* An away loop that is a copy of the home loop.
AwayTallyAsHome(acc, match) == HomeTally(acc, match)

\* An away loop that adds the goals to the wrong sides.
AwayTallyGoalsSwapped(acc, match) ==
    IF match.result.present
    THEN LET r == match.result IN
         [wins         |-> acc.wins + (IF r.awayGoals > r.homeGoals THEN 1 ELSE 0),
          draws        |-> acc.draws + (IF r.awayGoals = r.homeGoals THEN 1 ELSE 0),
          losses       |-> acc.losses + (IF r.awayGoals < r.homeGoals THEN 1 ELSE 0),
          goalsFor     |-> acc.goalsFor + r.homeGoals,
          goalsAgainst |-> acc.goalsAgainst + r.awayGoals]
    ELSE acc

\* The body of the forEach over the away matches.
AwayTally(acc, match) ==
    IF match.result.present
    THEN LET r == match.result IN
         [wins         |-> acc.wins + (IF r.awayGoals > r.homeGoals THEN 1 ELSE 0),
          draws        |-> acc.draws + (IF r.awayGoals > r.homeGoals THEN 0
                                        ELSE IF r.awayGoals = r.homeGoals THEN 1 ELSE 0),
          losses       |-> acc.losses + (IF r.awayGoals > r.homeGoals THEN 0
                                         ELSE IF r.awayGoals = r.homeGoals THEN 0 ELSE 1),
          goalsFor     |-> acc.goalsFor + r.awayGoals,
          goalsAgainst |-> acc.goalsAgainst + r.homeGoals]
    ELSE acc

RECURSIVE ProcessHome(_, _)
\* matchesSnapshot.docs.forEach(...)
ProcessHome(docs, acc) ==
    IF docs = <<>> THEN acc ELSE ProcessHome(Tail(docs), HomeTally(acc, Head(docs)))

RECURSIVE ProcessAway(_, _)
\* awayMatchesSnapshot.docs.forEach(...)
ProcessAway(docs, acc) ==
    IF docs = <<>> THEN acc ELSE ProcessAway(Tail(docs), AwayTally(acc, Head(docs)))

\* A matchesPlayed that forgets the draws.
MatchesPlayedWithoutDraws(wins, draws, losses) == wins + losses

\* const matchesPlayed = wins + draws + losses
MatchesPlayed(wins, draws, losses) == wins + draws + losses

\* Two points for a win.
PointsTwoForWin(wins, draws) == (wins * 2) + draws

\* const points = (wins * 3) + draws
Points(wins, draws) == (wins * 3) + draws

\* currentStreak: { type: 'win', count: 0 }
CurrentStreak == [type |-> "win", count |-> 0]

\* A stats value whose streak follows the results.
BuildStatsComputedStreak(t) ==
    [matchesPlayed |-> MatchesPlayed(t.wins, t.draws, t.losses),
     wins |-> t.wins, draws |-> t.draws, losses |-> t.losses,
     goalsFor |-> t.goalsFor, goalsAgainst |-> t.goalsAgainst,
     points |-> Points(t.wins, t.draws),
     currentStreak |-> IF t.losses > t.wins THEN [type |-> "loss", count |-> t.losses]
                       ELSE [type |-> "win", count |-> t.wins]]

\* const stats: TeamStats = { ... }
BuildStats(t) ==
    [matchesPlayed |-> MatchesPlayed(t.wins, t.draws, t.losses),
     wins |-> t.wins, draws |-> t.draws, losses |-> t.losses,
     goalsFor |-> t.goalsFor, goalsAgainst |-> t.goalsAgainst,
     points |-> Points(t.wins, t.draws),
     currentStreak |-> CurrentStreak]

\* An aggregation that adds to the stats stored on the team of the invocation.
ComputeStatsOnStored(homeDocs, awayDocs) ==
    LET stored == teams[call.data.teamId].stats
    IN  BuildStats(ProcessAway(awayDocs, ProcessHome(homeDocs,
            [wins |-> stored.wins, draws |-> stored.draws, losses |-> stored.losses,
             goalsFor |-> stored.goalsFor, goalsAgainst |-> stored.goalsAgainst])))

\* The stats computed from the two snapshots.
ComputeStats(homeDocs, awayDocs) ==
    BuildStats(ProcessAway(awayDocs, ProcessHome(homeDocs, ZeroTally)))

\* ------------------------------------------------------------------------
\* State
\* ------------------------------------------------------------------------

\* Timestamps: the one a document was stored with, and the handler's new Date().
StoredAt == "stored"

Now == "now"

\* No invocation in progress.  Of an invocation: where it is (pc), request.auth
\* and request.data, what it has read (clubId, homeDocs, awayDocs), the stats it
\* computed, the store operations it issued (ops), the store operation that
\* failed, if one did (fault), and the response.
Idle ==
    [pc |-> "idle", auth |-> NoAuth, data |-> NullData, clubId |-> Undefined,
     homeDocs |-> <<>>, awayDocs |-> <<>>, stats |-> NoStats, ops |-> {},
     fault |-> "none", resp |-> NoResponse]

\* The team documents: a seeded team of club c1 and a team of club c2 as
\* createTeam stores it.
InitTeams ==
    [t \in TeamIds |->
        IF t = "t1"
        THEN [clubId |-> "c1", stats |-> SeedStats, updatedAt |-> StoredAt, version |-> 1]
        ELSE [clubId |-> "c2", stats |-> CreatedStats, updatedAt |-> StoredAt, version |-> 1]]

\* The membership documents: every status, and a user without a document.
InitMembers ==
    [c \in ClubIds |->
        IF c = "c1"
        THEN [u \in UserIds |-> CASE u = "u1" -> "active"
                                  [] u = "u2" -> "suspended"
                                  [] OTHER    -> "inactive"]
        ELSE [u \in UserIds |-> CASE u = "u1" -> "pending"
                                  [] u = "u2" -> "active"
                                  [] OTHER    -> NoMember]]

\* ------------------------------------------------------------------------
\* Clubs, users and the invocations of createClub and joinClub
\* ------------------------------------------------------------------------

\* The ids clubRef = collection.doc() can draw for a new club.
NewClubIds == {"c3", "c4"}

UnknownClub == "cX"

\* A slug is its base followed by the counters appended to it: 'fc-beispiel-1'
\* is <<"fc-beispiel", 1>>.  The slugs a createClub request may ask for.
BaseSlugs == {<<"fc-beispiel">>, <<"fc-beispiel", 1>>}

\* `${baseSlug}-${counter}`
SuffixedSlug(baseSlug, counter) == Append(baseSlug, counter)

\* The club documents: the seeded club, open to registration without approval,
\* and a club that is open and requires approval.
InitClubs ==
    [c \in ClubIds |->
        IF c = "c1"
        THEN [slug |-> <<"fc-beispiel">>, allowRegistration |-> TRUE,
              requireApproval |-> FALSE, memberCount |-> 3, matchCount |-> 5,
              createdBy |-> "u1"]
        ELSE [slug |-> <<"sv-muster">>, allowRegistration |-> TRUE,
              requireApproval |-> TRUE, memberCount |-> 2, matchCount |-> 0,
              createdBy |-> "u2"]]

\* USER_ROLES.ADMIN
AdminRole == "admin"

\* The user documents; user u3 has none.
InitUsers ==
    [u \in UserIds |->
        CASE u = "u1" -> [exists |-> TRUE, clubMemberships |-> {[clubId |-> "c1", role |-> AdminRole]}]
          [] u = "u2" -> [exists |-> TRUE, clubMemberships |-> {[clubId |-> "c2", role |-> AdminRole]}]
          [] OTHER    -> [exists |-> FALSE, clubMemberships |-> {}]]

\* request.data of createClub: it passes createClubSchema and asks for a slug,
\* or it does not pass.
InvalidClubData == [valid |-> FALSE, slug |-> <<>>]

CreateClubData == {InvalidClubData} \cup [valid : {TRUE}, slug : BaseSlugs]

\* request.data of joinClub: it passes joinClubSchema and names a club, or it
\* does not pass.
InvalidJoinData == [valid |-> FALSE, clubId |-> Undefined]

JoinClubData ==
    {InvalidJoinData} \cup [valid : {TRUE}, clubId : ClubIds \cup NewClubIds \cup {UnknownClub}]

\* What the caller of createClub receives: { success, clubId, slug } or an error.
ClubCreated(clubId, slug) == [success |-> TRUE, code |-> "ok", clubId |-> clubId, slug |-> slug]

ClubFailure(code) == [success |-> FALSE, code |-> code, clubId |-> Undefined, slug |-> <<>>]

NoClubResponse == [success |-> FALSE, code |-> "pending", clubId |-> Undefined, slug |-> <<>>]

\* What the caller of joinClub receives: { success, status, requiresApproval }
\* or an error.
Joined(status, requiresApproval) ==
    [success |-> TRUE, code |-> "ok", status |-> status, requiresApproval |-> requiresApproval]

JoinFailure(code) ==
    [success |-> FALSE, code |-> code, status |-> Undefined, requiresApproval |-> FALSE]

NoJoinResponse ==
    [success |-> FALSE, code |-> "pending", status |-> Undefined, requiresApproval |-> FALSE]

\* No createClub invocation.  Of an invocation: where it is, request.auth and
\* request.data, the slug it tries and the counter of generateUniqueSlug, the
\* id of its clubRef, the store operations it issued, the one that failed, and
\* the response.
IdleCreate ==
    [pc |-> "idle", auth |-> NoAuth, data |-> InvalidClubData, slug |-> <<>>,
     counter |-> 1, clubId |-> Undefined, ops |-> {}, fault |-> "none",
     resp |-> NoClubResponse]

\* No joinClub invocation.  Of an invocation: where it is, request.auth and
\* request.data, the club's requireApproval as read, the store operations it
\* issued, the one that failed, and the response.
IdleJoin ==
    [pc |-> "idle", auth |-> NoAuth, data |-> InvalidJoinData, requiresApproval |-> FALSE,
     ops |-> {}, fault |-> "none", resp |-> NoJoinResponse]

\* The approvedAt of the membership documents: the seed sets it; a pending
\* membership has none.
InitApprovedAt ==
    [c \in ClubIds |->
        [u \in UserIds |-> IF InitMembers[c][u] \in {NoMember, "pending"} THEN Undefined
                           ELSE StoredAt]]

\* No onMatchCompleted invocation.  Of an invocation: where it is, the event's
\* before and after snapshots, the clubIds still to update, the clubs whose
\* update was applied, and the error it logged, if any.
IdleTrigger ==
    [pc |-> "idle", before |-> NoDoc, after |-> NoDoc, clubIds |-> <<>>,
     updated |-> <<>>, fault |-> "none"]

\* null: no Firebase user, no user in the context.
NullUser == "null"

\* The handlers of auth-state changes one client has in flight at most.
MaxHandlers == 2

\* AuthProvider as mounted: useState(null), useState(true); no auth-state
\* change delivered yet, no handler in flight.  firebaseUser is what the most
\* recent auth-state change delivered; of a handler in flight: its
\* firebaseUser's uid and the await it is at.
InitProvider ==
    [user |-> NullUser, loading |-> TRUE, firebaseUser |-> NullUser, delivered |-> FALSE,
     handlers |-> <<>>]

\* The stored documents other than the matches, and no invocation.
InitStore ==
    /\ teams = InitTeams
    /\ members = InitMembers
    /\ clubs = InitClubs
    /\ users = InitUsers
    /\ call = Idle
    /\ parked = Idle
    /\ create = IdleCreate
    /\ parkedCreate = IdleCreate
    /\ join = IdleJoin
    /\ parkedJoin = IdleJoin
    /\ approvedAt = InitApprovedAt
    /\ trigger = IdleTrigger
    /\ provider = InitProvider

Init ==
    /\ matches \in [MatchIds -> Match \cup {NoDoc}]
    /\ InitStore

\* The handler ends: the error goes through the catch block to the caller
\* (fault: the store operation whose failure it was, or "none").
Throw(fault, error) ==
    [call EXCEPT !.pc = "done", !.fault = fault, !.resp = Failure(CatchError(error).code)]

\* ------------------------------------------------------------------------
\* calculateTeamStats, one action per await
\* ------------------------------------------------------------------------

\* The call arrives; the handler runs to its first await (the team read).
Invoke(auth, data) ==
    /\ call.pc = "idle"
    /\ LET error == ValidateRequest(auth, data)
           c     == [call EXCEPT !.auth = auth, !.data = data]
       IN  call' = IF error # NoError
                   THEN [c EXCEPT !.pc = "done", !.resp = Failure(CatchError(error).code)]
                   ELSE [c EXCEPT !.pc = "getTeam", !.ops = {"teams.get"}]
    /\ UNCHANGED <<matches, teams, members, parked, clubState>>

\* The team read resolves; then the membership read is issued.
TeamRead(fails) ==
    /\ call.pc = "getTeam"
    /\ call' = IF fails THEN Throw("teams.get", StoreError)
               ELSE IF ~TeamExists(call.data.teamId) THEN Throw("none", HttpsError("not-found"))
               ELSE [call EXCEPT !.pc = "getMember",
                                 !.clubId = teams[call.data.teamId].clubId,
                                 !.ops = @ \cup {"members.get"}]
    /\ UNCHANGED <<matches, teams, members, parked, clubState>>

\* hasClubPermission resolves; then the home query is issued.
MemberRead(fails) ==
    /\ call.pc = "getMember"
    /\ LET fault == IF fails THEN "members.get" ELSE "none"
       IN  call' = IF ~hasClubPermission(fails, call.auth, call.clubId)
                   THEN Throw(fault, HttpsError("permission-denied"))
                   ELSE [call EXCEPT !.pc = "queryHome", !.fault = fault,
                                     !.ops = @ \cup {"matches.home"}]
    /\ UNCHANGED <<matches, teams, members, parked, clubState>>

\* The home query resolves; then the away query is issued.
HomeQuery(fails) ==
    /\ call.pc = "queryHome"
    /\ call' = IF fails THEN Throw("matches.home", StoreError)
               ELSE [call EXCEPT !.pc = "queryAway",
                                 !.homeDocs = Snapshot(matches, MatchOrder, "homeTeamId", call.data.teamId),
                                 !.ops = @ \cup {"matches.away"}]
    /\ UNCHANGED <<matches, teams, members, parked, clubState>>

\* The away query resolves; the stats are computed and the update is issued.
AwayQuery(fails) ==
    /\ call.pc = "queryAway"
    /\ call' = IF fails THEN Throw("matches.away", StoreError)
               ELSE LET away == Snapshot(matches, MatchOrder, "awayTeamId", call.data.teamId)
                    IN  [call EXCEPT !.pc = "update",
                                     !.awayDocs = away,
                                     !.stats = ComputeStats(call.homeDocs, away),
                                     !.ops = @ \cup {"teams.update"}]
    /\ UNCHANGED <<matches, teams, members, parked, clubState>>

\* An update that gives way to a write made since the documents were stored.
UpdateTeamFirstWriteWins(team, stats) ==
    IF team.updatedAt = Now THEN team ELSE [team EXCEPT !.stats = stats, !.updatedAt = Now]

\* An update that also counts the document's version up.
UpdateTeamBumpsVersion(team, stats) ==
    [team EXCEPT !.stats = stats, !.updatedAt = Now, !.version = @ + 1]

\* An update that is skipped when no match was played.
UpdateTeamSkipsEmpty(team, stats) ==
    IF stats.matchesPlayed = 0 THEN team ELSE [team EXCEPT !.stats = stats, !.updatedAt = Now]

\* An update that stamps the document and leaves the stats out.
UpdateTeamTimestampOnly(team, stats) == [team EXCEPT !.updatedAt = Now]

\* update({ stats, updatedAt: new Date() }) as the store applies it.
UpdateTeam(team, stats) == [team EXCEPT !.stats = stats, !.updatedAt = Now]

\* The update resolves and the handler returns { success: true, stats }.
TeamUpdate(fails) ==
    /\ call.pc = "update"
    /\ IF fails
       THEN /\ call' = Throw("teams.update", StoreError)
            /\ UNCHANGED teams
       ELSE /\ teams' = [teams EXCEPT ![call.data.teamId] = UpdateTeam(@, call.stats)]
            /\ call' = [call EXCEPT !.pc = "done", !.resp = Success(call.stats)]
    /\ UNCHANGED <<matches, members, parked, clubState>>

\* The caller has the response.
Respond ==
    /\ call.pc = "done"
    /\ call' = Idle
    /\ UNCHANGED <<matches, teams, members, parked, clubState>>

Next ==
    \/ \E auth \in UserIds \cup {NoAuth}, data \in RequestData : Invoke(auth, data)
    \/ \E fails \in BOOLEAN : TeamRead(fails)
    \/ \E fails \in BOOLEAN : MemberRead(fails)
    \/ \E fails \in BOOLEAN : HomeQuery(fails)
    \/ \E fails \in BOOLEAN : AwayQuery(fails)
    \/ \E fails \in BOOLEAN : TeamUpdate(fails)
    \/ Respond

Spec == Init /\ [][Next]_vars

\* ------------------------------------------------------------------------
\* Two calculateTeamStats invocations for one team, and matches that change
\* ------------------------------------------------------------------------

\* The fixtures: team t1 at home against t2 in m1, away at t2 in m2.
Fixture(m) ==
    IF m = "m1" THEN [homeTeamId |-> "t1", awayTeamId |-> "t2"]
    ELSE [homeTeamId |-> "t2", awayTeamId |-> "t1"]

\* A fixture as it is scheduled, and as it is finished: a 1:0 home win.
ScheduledMatch(m) ==
    [homeTeamId |-> Fixture(m).homeTeamId, awayTeamId |-> Fixture(m).awayTeamId,
     status |-> "scheduled", result |-> NoResult]

FinishedMatch(m) ==
    [homeTeamId |-> Fixture(m).homeTeamId, awayTeamId |-> Fixture(m).awayTeamId,
     status |-> "finished",
     result |-> [present |-> TRUE, homeGoals |-> 1, awayGoals |-> 0]]

\* A client writes a match document: the fixture is scheduled, then finished.
MatchChange(m) ==
    /\ matches[m] # FinishedMatch(m)
    /\ matches' = [matches EXCEPT ![m] = IF @ = NoDoc THEN ScheduledMatch(m)
                                         ELSE FinishedMatch(m)]
    /\ UNCHANGED <<teams, members, call, parked, clubState>>

\* The functions runtime turns to the other invocation: two invocations run,
\* and their awaits resolve in any order.
Switch ==
    /\ call # parked
    /\ call' = parked
    /\ parked' = call
    /\ UNCHANGED <<matches, teams, members, clubState>>

\* The callers: members of team t1's club, one active and one suspended.
RaceCallers == {"u1", "u2"}

\* Every call asks for team t1.
RaceRequest == [isNull |-> FALSE, teamId |-> "t1"]

InitRace ==
    /\ matches = [m \in MatchIds |-> NoDoc]
    /\ InitStore

NextRace ==
    \/ \E auth \in RaceCallers : Invoke(auth, RaceRequest)
    \/ \E fails \in BOOLEAN : TeamRead(fails)
    \/ \E fails \in BOOLEAN : MemberRead(fails)
    \/ \E fails \in BOOLEAN : HomeQuery(fails)
    \/ \E fails \in BOOLEAN : AwayQuery(fails)
    \/ \E fails \in BOOLEAN : TeamUpdate(fails)
    \/ Respond
    \/ Switch
    \/ \E m \in MatchIds : MatchChange(m)

SpecRace == InitRace /\ [][NextRace]_vars

\* ------------------------------------------------------------------------
\* createClub, one action per await
\* ------------------------------------------------------------------------

\* The ZodError of schema.parse on data that does not pass.
ZodError == [cls |-> "ZodError", code |-> "none"]

\* The catch block of createClub: a ZodError becomes 'invalid-argument',
\* anything else, an HttpsError included, becomes 'internal'.
CatchCreateClub(error) ==
    IF error.cls = "ZodError" THEN HttpsError("invalid-argument") ELSE HttpsError("internal")

\* The synchronous prefix of createClub and joinClub: getAuthContext, then
\* schema.parse.
ParseRequest(auth, data) ==
    IF getAuthContextThrows(auth) THEN HttpsError("unauthenticated")
    ELSE IF ~data.valid THEN ZodError
    ELSE NoError

\* createClub throws: the catch block's error is the response.
ThrowCreate(fault, error) ==
    [create EXCEPT !.pc = "done", !.fault = fault,
                   !.resp = ClubFailure(CatchCreateClub(error).code)]

\* where('slug', '==', slug).limit(1).get() is empty
SlugFree(slug) == \A c \in DOMAIN clubs : clubs[c].slug # slug

\* The ids no club document and no clubRef in progress has.
FreeIds == NewClubIds \ (DOMAIN clubs \cup {create.clubId, parkedCreate.clubId})

\* A club document that is open to registration from the start.
ClubDataOpen(slug, uid) ==
    [slug |-> slug, allowRegistration |-> TRUE, requireApproval |-> TRUE,
     memberCount |-> 1, matchCount |-> 0, createdBy |-> uid]

\* The club document createClub builds.
ClubData(slug, uid) ==
    [slug |-> slug, allowRegistration |-> FALSE, requireApproval |-> TRUE,
     memberCount |-> 1, matchCount |-> 0, createdBy |-> uid]

\* The call arrives; the handler runs to its first await (the slug lookup).
\* A clubRef must remain for it.
CreateInvoke(auth, data) ==
    /\ create.pc = "idle"
    /\ Cardinality(FreeIds) > (IF parkedCreate.pc = "slugQuery" THEN 1 ELSE 0)
    /\ LET error == ParseRequest(auth, data)
           c     == [create EXCEPT !.auth = auth, !.data = data]
       IN  create' = IF error # NoError
                     THEN [c EXCEPT !.pc = "done", !.resp = ClubFailure(CatchCreateClub(error).code)]
                     ELSE [c EXCEPT !.pc = "slugQuery", !.slug = data.slug,
                                    !.ops = {"clubs.query"}]
    /\ UNCHANGED <<matches, teams, members, call, parked, clubs, users, parkedCreate, join,
                 parkedJoin, approvedAt, webState>>

\* A lookup of generateUniqueSlug resolves.  A taken slug: the next candidate
\* is looked up.  A free slug: it is returned, the clubRef gets its id, the
\* batch is built and committed; building it evaluates db.FieldValue, which
\* throws a TypeError where the Firestore instance has no such property.
CreateSlugQuery(fails, hasFieldValue) ==
    /\ create.pc = "slugQuery"
    /\ \E id \in FreeIds :
          create' = IF fails THEN ThrowCreate("clubs.query", StoreError)
                    ELSE IF ~SlugFree(create.slug)
                    THEN [create EXCEPT !.slug = SuffixedSlug(create.data.slug, create.counter),
                                        !.counter = @ + 1]
                    ELSE IF ~hasFieldValue
                    THEN [ThrowCreate("none", TypeError) EXCEPT !.clubId = id]
                    ELSE [create EXCEPT !.pc = "commit", !.clubId = id,
                                        !.ops = @ \cup {"batch.commit"}]
    /\ UNCHANGED <<matches, teams, members, call, parked, clubs, users, parkedCreate, join,
                 parkedJoin, approvedAt, webState>>

\* batch.commit() applies its writes together or not at all; the update of a
\* user document that does not exist makes the store reject the batch.
BatchApplies(fails, uid) == ~fails /\ users[uid].exists

\* set(clubRef, clubData) issued on its own, outside the batch.
BatchSetClubUnbatched(applies, id, doc) == clubs @@ (id :> doc)

\* batch.set(clubRef, clubData)
BatchSetClub(applies, id, doc) == IF applies THEN clubs @@ (id :> doc) ELSE clubs

\* batch.set(membershipRef, membershipData): the creator, status 'active'.
BatchSetMembership(applies, id, uid) ==
    IF applies
    THEN members @@ (id :> [u \in UserIds |-> IF u = uid THEN "active" ELSE NoMember])
    ELSE members

\* The approvedAt of that membership: now.
BatchSetApprovedAt(applies, id, uid) ==
    IF applies
    THEN approvedAt @@ (id :> [u \in UserIds |-> IF u = uid THEN Now ELSE Undefined])
    ELSE approvedAt

\* batch.update(userRef, { clubMemberships: arrayUnion({ clubId, role }) })
BatchUpdateUser(applies, id, uid) ==
    IF applies
    THEN [users EXCEPT ![uid].clubMemberships = @ \cup {[clubId |-> id, role |-> AdminRole]}]
    ELSE users

\* The commit resolves and the handler returns { success: true, clubId, slug }.
CreateCommit(fails) ==
    /\ create.pc = "commit"
    /\ LET applies == BatchApplies(fails, create.auth)
       IN  /\ clubs' = BatchSetClub(applies, create.clubId, ClubData(create.slug, create.auth))
           /\ members' = BatchSetMembership(applies, create.clubId, create.auth)
           /\ approvedAt' = BatchSetApprovedAt(applies, create.clubId, create.auth)
           /\ users' = BatchUpdateUser(applies, create.clubId, create.auth)
           /\ create' = IF applies
                        THEN [create EXCEPT !.pc = "done",
                                            !.resp = ClubCreated(create.clubId, create.slug)]
                        ELSE ThrowCreate("batch.commit", StoreError)
    /\ UNCHANGED <<matches, teams, call, parked, parkedCreate, join, parkedJoin, webState>>

\* The caller has the response.
CreateRespond ==
    /\ create.pc = "done"
    /\ create' = IdleCreate
    /\ UNCHANGED <<matches, teams, members, call, parked, clubs, users, parkedCreate, join,
                 parkedJoin, approvedAt, webState>>

\* The functions runtime turns to the other createClub invocation: two
\* invocations run, and their awaits resolve in any order.
CreateSwitch ==
    /\ create # parkedCreate
    /\ create' = parkedCreate
    /\ parkedCreate' = create
    /\ UNCHANGED <<matches, teams, members, call, parked, clubs, users, join,
                 parkedJoin, approvedAt, webState>>


\* ------------------------------------------------------------------------
\* joinClub, one action per await
\* ------------------------------------------------------------------------

\* The catch block of joinClub: an HttpsError is rethrown, a ZodError becomes
\* 'invalid-argument', anything else 'internal'.
CatchJoinClub(error) ==
    IF error.cls = "HttpsError" THEN error
    ELSE IF error.cls = "ZodError" THEN HttpsError("invalid-argument")
    ELSE HttpsError("internal")

\* joinClub throws: the catch block's error is the response.
ThrowJoin(fault, error) ==
    [join EXCEPT !.pc = "done", !.fault = fault,
                 !.resp = JoinFailure(CatchJoinClub(error).code)]

\* A membership that is active whatever the club requires.
JoinStatusActive(requiresApproval) == "active"

\* requiresApproval ? 'pending' : 'active'
JoinStatus(requiresApproval) == IF requiresApproval THEN "pending" ELSE "active"

\* ...(requiresApproval ? {} : { approvedAt: now })
JoinApprovedAt(requiresApproval) == IF requiresApproval THEN Undefined ELSE Now

\* The call arrives; the handler runs to its first await (the club read).
JoinInvoke(auth, data) ==
    /\ join.pc = "idle"
    /\ LET error == ParseRequest(auth, data)
           j     == [join EXCEPT !.auth = auth, !.data = data]
       IN  join' = IF error # NoError
                   THEN [j EXCEPT !.pc = "done", !.resp = JoinFailure(CatchJoinClub(error).code)]
                   ELSE [j EXCEPT !.pc = "getClub", !.ops = {"clubs.get"}]
    /\ UNCHANGED <<matches, teams, members, call, parked, clubs, users, create, parkedCreate,
                 parkedJoin, approvedAt, webState>>

\* The club read resolves; then the membership read is issued.
JoinClubRead(fails) ==
    /\ join.pc = "getClub"
    /\ join' = IF fails THEN ThrowJoin("clubs.get", StoreError)
               ELSE IF join.data.clubId \notin DOMAIN clubs
               THEN ThrowJoin("none", HttpsError("not-found"))
               ELSE IF ~clubs[join.data.clubId].allowRegistration
               THEN ThrowJoin("none", HttpsError("permission-denied"))
               ELSE [join EXCEPT !.pc = "getMember",
                                 !.requiresApproval = clubs[join.data.clubId].requireApproval,
                                 !.ops = @ \cup {"members.get"}]
    /\ UNCHANGED <<matches, teams, members, call, parked, clubs, users, create, parkedCreate,
                 parkedJoin, approvedAt, webState>>

\* A check that takes only an active membership for an existing one.
MembershipExistsIfActive(clubId, uid) == members[clubId][uid] = "active"

\* existingMembership.exists
MembershipExists(clubId, uid) == members[clubId][uid] # NoMember

\* The membership read resolves; then the membership is set.
JoinMemberRead(fails) ==
    /\ join.pc = "getMember"
    /\ join' = IF fails THEN ThrowJoin("members.get", StoreError)
               ELSE IF MembershipExists(join.data.clubId, join.auth)
               THEN ThrowJoin("none", HttpsError("already-exists"))
               ELSE [join EXCEPT !.pc = "setMember", !.ops = @ \cup {"members.set"}]
    /\ UNCHANGED <<matches, teams, members, call, parked, clubs, users, create, parkedCreate,
                 parkedJoin, approvedAt, webState>>

\* The set resolves; then the member count update is issued.  Building its
\* argument evaluates db.FieldValue, which throws a TypeError where the
\* Firestore instance has no such property.
JoinMemberSet(fails, hasFieldValue) ==
    /\ join.pc = "setMember"
    /\ IF fails
       THEN /\ join' = ThrowJoin("members.set", StoreError)
            /\ UNCHANGED <<members, approvedAt>>
       ELSE /\ members' = [members EXCEPT ![join.data.clubId][join.auth] =
                                              JoinStatus(join.requiresApproval)]
            /\ approvedAt' = [approvedAt EXCEPT ![join.data.clubId][join.auth] =
                                                    JoinApprovedAt(join.requiresApproval)]
            /\ join' = IF ~hasFieldValue THEN ThrowJoin("none", TypeError)
                       ELSE [join EXCEPT !.pc = "updateCount", !.ops = @ \cup {"clubs.update"}]
    /\ UNCHANGED <<matches, teams, call, parked, clubs, users, create, parkedCreate,
                 parkedJoin, webState>>

\* The update resolves and the handler returns { success: true, status,
\* requiresApproval }.
JoinCountUpdate(fails) ==
    /\ join.pc = "updateCount"
    /\ IF fails
       THEN /\ join' = ThrowJoin("clubs.update", StoreError)
            /\ UNCHANGED clubs
       ELSE /\ clubs' = [clubs EXCEPT ![join.data.clubId].memberCount = @ + 1]
            /\ join' = [join EXCEPT !.pc = "done",
                                    !.resp = Joined(JoinStatus(join.requiresApproval),
                                                    join.requiresApproval)]
    /\ UNCHANGED <<matches, teams, members, call, parked, users, create, parkedCreate,
                 parkedJoin, approvedAt, webState>>

\* The caller has the response.
JoinRespond ==
    /\ join.pc = "done"
    /\ join' = IdleJoin
    /\ UNCHANGED <<matches, teams, members, call, parked, clubs, users, create, parkedCreate,
                 parkedJoin, approvedAt, webState>>


\* ------------------------------------------------------------------------
\* The three callable functions over the seeded store
\* ------------------------------------------------------------------------

\* The seeded memberships, user u3 being no member of club c1 yet.
InitClubMembers == [InitMembers EXCEPT !["c1"]["u3"] = NoMember]

\* The seeded store without matches.
InitClubStore ==
    /\ matches = [m \in MatchIds |-> NoDoc]
    /\ teams = InitTeams
    /\ members = InitClubMembers
    /\ clubs = InitClubs
    /\ users = InitUsers
    /\ call = Idle
    /\ parked = Idle
    /\ create = IdleCreate
    /\ parkedCreate = IdleCreate
    /\ join = IdleJoin
    /\ parkedJoin = IdleJoin
    /\ approvedAt = [InitApprovedAt EXCEPT !["c1"]["u3"] = Undefined]
    /\ trigger = IdleTrigger
    /\ provider = InitProvider

\* No invocation of the function is in progress.
CalcQuiet == call.pc = "idle" /\ parked.pc = "idle"

CreateQuiet == create.pc = "idle" /\ parkedCreate.pc = "idle"

JoinQuiet == join.pc = "idle"

\* A call arrives while no invocation of another function is in progress:
\* createClub invocations interleave with each other, invocations of different
\* functions follow one another.
InvokeApart(auth, data) == CreateQuiet /\ JoinQuiet /\ Invoke(auth, data)

CreateInvokeApart(auth, data) == CalcQuiet /\ JoinQuiet /\ CreateInvoke(auth, data)

JoinInvokeApart(auth, data) == CalcQuiet /\ CreateQuiet /\ JoinInvoke(auth, data)

NextClubs ==
    \/ \E auth \in UserIds \cup {NoAuth}, data \in RequestData : InvokeApart(auth, data)
    \/ \E fails \in BOOLEAN : TeamRead(fails)
    \/ \E fails \in BOOLEAN : MemberRead(fails)
    \/ \E fails \in BOOLEAN : HomeQuery(fails)
    \/ \E fails \in BOOLEAN : AwayQuery(fails)
    \/ \E fails \in BOOLEAN : TeamUpdate(fails)
    \/ Respond
    \/ \E auth \in UserIds \cup {NoAuth}, data \in CreateClubData : CreateInvokeApart(auth, data)
    \/ \E fails, hasFieldValue \in BOOLEAN : CreateSlugQuery(fails, hasFieldValue)
    \/ \E fails \in BOOLEAN : CreateCommit(fails)
    \/ CreateRespond
    \/ CreateSwitch
    \/ \E auth \in UserIds \cup {NoAuth}, data \in JoinClubData : JoinInvokeApart(auth, data)
    \/ \E fails \in BOOLEAN : JoinClubRead(fails)
    \/ \E fails \in BOOLEAN : JoinMemberRead(fails)
    \/ \E fails, hasFieldValue \in BOOLEAN : JoinMemberSet(fails, hasFieldValue)
    \/ \E fails \in BOOLEAN : JoinCountUpdate(fails)
    \/ JoinRespond

SpecClubs == InitClubStore /\ [][NextClubs]_vars

\* ------------------------------------------------------------------------
\* Two joinClub invocations, and createClub
\* ------------------------------------------------------------------------

\* The functions runtime turns to the other joinClub invocation: two
\* invocations run, and their awaits resolve in any order.
JoinSwitch ==
    /\ join # parkedJoin
    /\ join' = parkedJoin
    /\ parkedJoin' = join
    /\ UNCHANGED <<matches, teams, members, call, parked, clubs, users, create, parkedCreate,
                   approvedAt, webState>>

\* No joinClub invocation is in progress.
JoinsQuiet == join.pc = "idle" /\ parkedJoin.pc = "idle"

\* joinClub invocations interleave with each other; a createClub invocation
\* runs while no joinClub invocation does.
CreateInvokeAlone(auth, data) == JoinsQuiet /\ CreateInvoke(auth, data)

JoinInvokeBeside(auth, data) == CreateQuiet /\ JoinInvoke(auth, data)

NextJoin ==
    \/ \E auth \in UserIds \cup {NoAuth}, data \in CreateClubData : CreateInvokeAlone(auth, data)
    \/ \E fails, hasFieldValue \in BOOLEAN : CreateSlugQuery(fails, hasFieldValue)
    \/ \E fails \in BOOLEAN : CreateCommit(fails)
    \/ CreateRespond
    \/ \E auth \in UserIds \cup {NoAuth}, data \in JoinClubData : JoinInvokeBeside(auth, data)
    \/ \E fails \in BOOLEAN : JoinClubRead(fails)
    \/ \E fails \in BOOLEAN : JoinMemberRead(fails)
    \/ \E fails, hasFieldValue \in BOOLEAN : JoinMemberSet(fails, hasFieldValue)
    \/ \E fails \in BOOLEAN : JoinCountUpdate(fails)
    \/ JoinRespond
    \/ JoinSwitch

SpecJoin == InitClubStore /\ [][NextJoin]_vars

\* ------------------------------------------------------------------------
\* onMatchCompleted, the trigger on updates of match documents
\* ------------------------------------------------------------------------

\* The completions a club's matchCount is followed through.
MaxCompletions == 2

\* A match document of fixture m as type Match has it: no homeTeam and no
\* awayTeam field.
TypedMatch(m, status) ==
    [homeTeamId |-> Fixture(m).homeTeamId, awayTeamId |-> Fixture(m).awayTeamId,
     status |-> status,
     result |-> IF status = "finished" THEN FinishedMatch(m).result ELSE NoResult]

\* A match document that embeds its teams, each with the clubId of the team
\* document.
EmbeddingMatch(m, status) ==
    [homeTeamId |-> Fixture(m).homeTeamId, awayTeamId |-> Fixture(m).awayTeamId,
     status |-> status,
     result |-> IF status = "finished" THEN FinishedMatch(m).result ELSE NoResult,
     homeTeam |-> [clubId |-> InitTeams[Fixture(m).homeTeamId].clubId],
     awayTeam |-> [clubId |-> InitTeams[Fixture(m).awayTeamId].clubId]]

\* after.homeTeam?.clubId, after.awayTeam?.clubId: undefined where the
\* document has no such field.
EmbeddedClubId(doc, field) ==
    IF field \in DOMAIN doc THEN doc[field].clubId ELSE Undefined

\* [after.homeTeam?.clubId, after.awayTeam?.clubId].filter(Boolean)
ClubIdsOf(doc) ==
    SelectSeq(<<EmbeddedClubId(doc, "homeTeam"), EmbeddedClubId(doc, "awayTeam")>>,
              LAMBDA c : c # Undefined)

\* before.status !== 'finished' && after.status === 'finished'
JustCompleted(before, after) == before.status # "finished" /\ after.status = "finished"

\* A client updates match document m to a status (the same one: the update
\* changes another field); the update event goes to the trigger.
MatchUpdate(m, status) ==
    /\ trigger.pc = "idle"
    /\ \A c \in ClubIds : clubs[c].matchCount < InitClubs[c].matchCount + MaxCompletions
    /\ LET after == [matches[m] EXCEPT !.status = status,
                                       !.result = IF status = "finished"
                                                  THEN FinishedMatch(m).result ELSE NoResult]
       IN  /\ matches' = [matches EXCEPT ![m] = after]
           /\ trigger' = [IdleTrigger EXCEPT !.pc = "event", !.before = matches[m],
                                             !.after = after]
    /\ UNCHANGED <<teams, members, call, parked, clubs, users, create, parkedCreate, join,
                   parkedJoin, approvedAt, provider>>

\* The handler throws: the catch block logs the error and the handler ends.
TriggerCaught(fault) == [trigger EXCEPT !.pc = "done", !.fault = fault]

\* The handler turns to the clubIds left: none, and it ends; else it builds
\* the next update, which evaluates db.FieldValue and throws a TypeError where
\* the Firestore instance has no such property, and issues it.
TriggerLoop(t, hasFieldValue) ==
    IF t.clubIds = <<>> THEN [t EXCEPT !.pc = "done"]
    ELSE IF ~hasFieldValue THEN [t EXCEPT !.pc = "done", !.fault = "TypeError"]
    ELSE [t EXCEPT !.pc = "update"]

\* The event is delivered; the handler runs to its first await, or to its end
\* where the match was not just completed.
OnMatchCompleted(hasFieldValue) ==
    /\ trigger.pc = "event"
    /\ trigger' = IF ~JustCompleted(trigger.before, trigger.after)
                  THEN [trigger EXCEPT !.pc = "done"]
                  ELSE TriggerLoop([trigger EXCEPT !.clubIds = ClubIdsOf(trigger.after)],
                                   hasFieldValue)
    /\ UNCHANGED <<matches, teams, members, call, parked, clubs, users, create, parkedCreate,
                   join, parkedJoin, approvedAt, provider>>

\* update({ 'stats.matchCount': increment(1) }) of a club resolves; the loop
\* goes on.
TriggerUpdate(fails, hasFieldValue) ==
    /\ trigger.pc = "update"
    /\ LET clubId == Head(trigger.clubIds)
       IN  IF fails \/ clubId \notin DOMAIN clubs
           THEN /\ trigger' = TriggerCaught("clubs.update")
                /\ UNCHANGED clubs
           ELSE /\ clubs' = [clubs EXCEPT ![clubId].matchCount = @ + 1]
                /\ trigger' = TriggerLoop([trigger EXCEPT !.clubIds = Tail(@),
                                                          !.updated = Append(@, clubId)],
                                          hasFieldValue)
    /\ UNCHANGED <<matches, teams, members, call, parked, users, create, parkedCreate,
                   join, parkedJoin, approvedAt, provider>>

\* The handler's promise has settled.
TriggerEnd ==
    /\ trigger.pc = "done"
    /\ trigger' = IdleTrigger
    /\ UNCHANGED <<matches, teams, members, call, parked, clubs, users, create, parkedCreate,
                   join, parkedJoin, approvedAt, provider>>

\* The fixtures are scheduled; a document is as type Match has it or embeds
\* its teams.
InitTrigger ==
    /\ matches \in [MatchIds -> UNION {{TypedMatch(m, "scheduled"), EmbeddingMatch(m, "scheduled")}
                                       : m \in MatchIds}]
    /\ \A m \in MatchIds : matches[m].homeTeamId = Fixture(m).homeTeamId
    /\ InitStore

NextTrigger ==
    \/ \E m \in MatchIds, status \in MatchStatus : MatchUpdate(m, status)
    \/ \E hasFieldValue \in BOOLEAN : OnMatchCompleted(hasFieldValue)
    \/ \E fails, hasFieldValue \in BOOLEAN : TriggerUpdate(fails, hasFieldValue)
    \/ TriggerEnd

SpecTrigger == InitTrigger /\ [][NextTrigger]_vars

\* ------------------------------------------------------------------------
\* AuthProvider, the handler of auth-state changes
\* ------------------------------------------------------------------------

\* What the store holds besides provider and users.
serverState ==
    <<matches, teams, members, call, parked, clubs, create, parkedCreate, join, parkedJoin,
      approvedAt, trigger>>

\* A sequence without its i-th element.
RemoveAt(seq, i) == SubSeq(seq, 1, i - 1) \o SubSeq(seq, i + 1, Len(seq))

\* The user document createUserDocument writes with setDoc.
NewUserDocument == [exists |-> TRUE, clubMemberships |-> {}]

\* Firebase delivers an auth-state change; the handler runs to its first
\* await, or to its end where there is no Firebase user.
AuthStateChanged(firebaseUser) ==
    /\ firebaseUser # NullUser => Len(provider.handlers) < MaxHandlers
    /\ provider' =
          IF firebaseUser = NullUser
          THEN [provider EXCEPT !.firebaseUser = NullUser, !.delivered = TRUE,
                                !.user = NullUser, !.loading = FALSE]
          ELSE [provider EXCEPT !.firebaseUser = firebaseUser, !.delivered = TRUE,
                                !.loading = TRUE,
                                !.handlers = Append(@, [uid |-> firebaseUser, pc |-> "getDoc"])]
    /\ UNCHANGED <<serverState, users>>

\* setUser(...) and, in the finally block, setLoading(false): handler i ends.
HandlerEnds(i, user) ==
    [provider EXCEPT !.user = user, !.loading = FALSE, !.handlers = RemoveAt(@, i)]

\* getUserDocument of handler i resolves: the user data, or null where there
\* is no document or the read fails (getUserDocument catches the error).  With
\* the user data the handler ends; with null it goes on to createUserDocument.
GetUserDocument(i, fails) ==
    /\ i \in DOMAIN provider.handlers
    /\ provider.handlers[i].pc = "getDoc"
    /\ LET uid == provider.handlers[i].uid
       IN  provider' = IF ~fails /\ users[uid].exists
                       THEN HandlerEnds(i, uid)
                       ELSE [provider EXCEPT !.handlers[i].pc = "createDoc"]
    /\ UNCHANGED <<serverState, users>>

\* createUserDocument of handler i resolves: setDoc has written the document
\* and the handler sets the user, or setDoc is rejected and the catch block
\* sets the user to null.
CreateUserDocument(i, fails) ==
    /\ i \in DOMAIN provider.handlers
    /\ provider.handlers[i].pc = "createDoc"
    /\ LET uid == provider.handlers[i].uid
       IN  IF fails
           THEN /\ provider' = HandlerEnds(i, NullUser)
                /\ UNCHANGED users
           ELSE /\ users' = [users EXCEPT ![uid] = NewUserDocument]
                /\ provider' = HandlerEnds(i, uid)
    /\ UNCHANGED serverState

InitAuth ==
    /\ matches = [m \in MatchIds |-> NoDoc]
    /\ InitStore

NextAuth ==
    \/ \E firebaseUser \in UserIds \cup {NullUser} : AuthStateChanged(firebaseUser)
    \/ \E i \in 1..MaxHandlers, fails \in BOOLEAN : GetUserDocument(i, fails)
    \/ \E i \in 1..MaxHandlers, fails \in BOOLEAN : CreateUserDocument(i, fails)

SpecAuth == InitAuth /\ [][NextAuth]_vars

\* ------------------------------------------------------------------------
\* Claims about the aggregation
\* ------------------------------------------------------------------------

\* The team the invocation in progress is about.
SubjectTeam == call.data.teamId

\* The invocation has computed its stats.
HasStats == call.stats # NoStats

\* The matches of coll that count for team t: finished, with a result, and t
\* is the home or the away team.
CountedMatches(coll, t) ==
    {m \in MatchIds : /\ coll[m] # NoDoc
                      /\ coll[m].status = "finished"
                      /\ coll[m].result.present
                      /\ t \in {coll[m].homeTeamId, coll[m].awayTeamId}}

\* Team t's own goals and its opponent's goals in a match document.
OwnGoals(doc, t) ==
    IF doc.homeTeamId = t THEN doc.result.homeGoals ELSE doc.result.awayGoals

OpponentGoals(doc, t) ==
    IF doc.homeTeamId = t THEN doc.result.awayGoals ELSE doc.result.homeGoals

RECURSIVE SumOwnGoals(_, _, _)
SumOwnGoals(coll, ms, t) ==
    IF ms = {} THEN 0
    ELSE LET m == CHOOSE x \in ms : TRUE
         IN  OwnGoals(coll[m], t) + SumOwnGoals(coll, ms \ {m}, t)

RECURSIVE SumOpponentGoals(_, _, _)
SumOpponentGoals(coll, ms, t) ==
    IF ms = {} THEN 0
    ELSE LET m == CHOOSE x \in ms : TRUE
         IN  OpponentGoals(coll[m], t) + SumOpponentGoals(coll, ms \ {m}, t)

OnlyCounted(coll) ==
    [m \in MatchIds |->
        IF coll[m] # NoDoc /\ coll[m].status = "finished" /\ coll[m].result.present
        THEN coll[m] ELSE NoDoc]

\* The stats the aggregation computes for team t from collection coll.
StatsFor(coll, t) ==
    ComputeStats(Snapshot(coll, MatchOrder, "homeTeamId", t),
                 Snapshot(coll, MatchOrder, "awayTeamId", t))

\* A match document that the aggregation must not count for team t.
Uncounted(doc, t) ==
    /\ doc # NoDoc
    /\ t \in {doc.homeTeamId, doc.awayTeamId}
    /\ doc.status # "finished" \/ ~doc.result.present

\* C2: only finished matches with a result contribute: the stats computed are
\* those of the collection without every match of another status (with or without
\* a result) and every finished match without a result, for either team, and
\* an invocation that got as far as aggregating fails only if a store
\* operation failed.
C2_OnlyFinishedWithResult ==
    /\ HasStats => call.stats = StatsFor(OnlyCounted(matches), SubjectTeam)
    /\ \A t \in TeamIds : StatsFor(matches, t) = StatsFor(OnlyCounted(matches), t)
    /\ (call.pc = "done" /\ HasStats /\ call.fault = "none") => call.resp.success

\* A successful invocation for a team with one counted match, next to a match
\* of another status that carries a result.
C2_Witness ==
    /\ call.pc = "done" /\ call.resp.success
    /\ call.resp.stats.matchesPlayed = 1
    /\ \E m \in MatchIds : /\ Uncounted(matches[m], SubjectTeam)
                           /\ matches[m].status # "finished"
                           /\ matches[m].result.present
                           /\ matches[m].result.homeGoals # matches[m].result.awayGoals

\* The team documents calculateTeamStats has written.
WrittenTeams == {t \in TeamIds : teams[t].updatedAt = Now}

\* C3: the stats an invocation computes and the stats it has written to a team
\* document have matchesPlayed = wins + draws + losses.
C3_MatchesPlayedIsSum ==
    /\ HasStats =>
          call.stats.matchesPlayed = call.stats.wins + call.stats.draws + call.stats.losses
    /\ \A t \in WrittenTeams :
          teams[t].stats.matchesPlayed =
              teams[t].stats.wins + teams[t].stats.draws + teams[t].stats.losses

\* A team document written with two matches played, one of them lost.
C3_Witness ==
    \E t \in WrittenTeams :
        /\ teams[t].stats.matchesPlayed = 2
        /\ teams[t].stats.losses = 1
        /\ call.pc = "done" /\ call.resp.success /\ SubjectTeam = t

\* C4: the stats an invocation computes and the stats it has written to a team
\* document have points = 3 * wins + draws.
C4_PointsFormula ==
    /\ HasStats => call.stats.points = 3 * call.stats.wins + call.stats.draws
    /\ \A t \in WrittenTeams : teams[t].stats.points = 3 * teams[t].stats.wins + teams[t].stats.draws

\* A team document written with one win and one draw: four points.
C4_Witness ==
    \E t \in WrittenTeams :
        /\ teams[t].stats.wins = 1 /\ teams[t].stats.draws = 1
        /\ teams[t].stats.points = 4
        /\ call.pc = "done" /\ call.resp.success /\ SubjectTeam = t

\* ------------------------------------------------------------------------
\* Claims about the handler's outcomes
\* ------------------------------------------------------------------------

AllOps == {"teams.get", "members.get", "matches.home", "matches.away", "teams.update"}

\* C5: no partial success.  A step that ends an invocation with success has
\* issued every read and the write, and leaves the returned stats stored on the
\* team; a step that ends it with an error leaves the team documents as they
\* were; and no other step changes a team document, so that after an error the
\* stored stats are those from before the invocation.
C5_NoPartialSuccess ==
    [][ /\ (call.pc # "done" /\ call'.pc = "done") =>
              IF call'.resp.success
              THEN /\ call'.ops = AllOps
                   /\ call'.resp.stats = call.stats
                   /\ teams'[call'.data.teamId].stats = call'.resp.stats
              ELSE teams' = teams
        /\ teams' # teams => (call.pc = "update" /\ call'.pc = "done" /\ call'.resp.success)
      ]_vars

\* An invocation that failed at the write: the stats it computed are not stored.
C5_Witness ==
    /\ call.pc = "done" /\ ~call.resp.success
    /\ call.fault = "teams.update"
    /\ call.stats.matchesPlayed = 2
    /\ teams[SubjectTeam].stats # call.stats

\* An authenticated call with a teamId got past the checks of the request.
ValidRequest == call.auth # NoAuth /\ ~call.data.isNull /\ ~Falsy(call.data.teamId)

\* C6: an authenticated call for a teamId without team document ends with
\* 'not-found' (unless the team read itself failed) and issues no write.
C6_UnknownTeamNotFound ==
    (call.pc = "done" /\ ValidRequest /\ SubjectTeam \notin DOMAIN teams) =>
        /\ call.ops = {"teams.get"}
        /\ call.fault = "none" => call.resp.code = "not-found"

\* The call for the unknown team has been answered with 'not-found'.
C6_Witness ==
    /\ call.pc = "done" /\ call.auth \in UserIds
    /\ SubjectTeam = UnknownTeam
    /\ call.resp.code = "not-found"

\* The caller's membership status in the club that owns the subject team.
CallerMembership == members[teams[SubjectTeam].clubId][call.auth]

\* C7: an invocation succeeds only if the caller has an 'active' membership in
\* the club of the team; a caller without membership document or with another
\* status gets 'permission-denied', and then no match query and no write was
\* issued.
C7_ActiveMembershipRequired ==
    (call.pc = "done" /\ ValidRequest /\ SubjectTeam \in DOMAIN teams) =>
        /\ call.resp.success => CallerMembership = "active"
        /\ (CallerMembership # "active" /\ call.fault # "teams.get") =>
              /\ call.resp.code = "permission-denied"
              /\ call.ops = {"teams.get", "members.get"}

\* A caller whose membership is pending has been refused.
C7_Witness ==
    /\ call.pc = "done" /\ ValidRequest /\ SubjectTeam \in DOMAIN teams
    /\ CallerMembership = "pending"
    /\ call.fault = "none"
    /\ call.resp.code = "permission-denied"

\* C8: an authenticated call with a missing or empty teamId ends with
\* 'invalid-argument' before any store operation is issued.  A call without
\* payload (request.data is null) has no teamId either.
C8_MissingTeamIdInvalidArgument ==
    (call.pc = "done" /\ call.auth # NoAuth /\ (call.data.isNull \/ Falsy(call.data.teamId))) =>
        /\ call.resp.code = "invalid-argument"
        /\ call.ops = {}

CalculateTeamStatsCodes == {"invalid-argument", "not-found", "permission-denied", "internal"}

\* C9 as stated: an invocation ends with { success: true, stats } or with one of
\* the codes 'invalid-argument', 'not-found', 'permission-denied', 'internal'.
C9_OnlyFourCodes ==
    call.pc = "done" =>
        \/ call.resp = Success(call.stats) /\ HasStats
        \/ ~call.resp.success /\ call.resp.code \in CalculateTeamStatsCodes

\* C9, amended: an invocation ends with { success: true, stats } or with one of
\* the codes 'unauthenticated', 'invalid-argument', 'not-found',
\* 'permission-denied', 'internal'.
C9_ErrorCodes ==
    call.pc = "done" =>
        \/ call.resp = Success(call.stats) /\ HasStats
        \/ ~call.resp.success /\ call.resp.code \in CalculateTeamStatsCodes \cup {"unauthenticated"}

\* An unauthenticated call has been answered with 'unauthenticated'.
C9_Witness ==
    /\ call.pc = "done" /\ call.auth = NoAuth
    /\ call.resp.code = "unauthenticated"

\* C10 as stated: an invocation during which a store operation failed ends with
\* 'internal'.
C10_AnyStoreFailureInternal ==
    (call.pc = "done" /\ call.fault # "none") => call.resp.code = "internal"

\* C10, amended: a failed team read, match query or team update ends the
\* invocation with 'internal'; a failed membership read ends it with
\* 'permission-denied'.
C10_StoreFailureCodes ==
    (call.pc = "done" /\ call.fault # "none") =>
        call.resp.code = IF call.fault = "members.get" THEN "permission-denied" ELSE "internal"

\* The membership read of an active member failed and the call was refused.
C10_Witness ==
    /\ call.pc = "done" /\ call.fault = "members.get"
    /\ CallerMembership = "active"
    /\ call.resp.code = "permission-denied"

\* ------------------------------------------------------------------------
\* Claims about the stored team document and the aggregate
\* ------------------------------------------------------------------------

\* The step that applies the update and returns.
SuccessStep == call.pc = "update" /\ call'.pc = "done" /\ call'.resp.success

\* C13: a run for a team that an earlier run has written, the match set being
\* the same, returns the stats the earlier run stored and leaves them stored.
C13_Idempotent ==
    [][ (SuccessStep /\ call.data.teamId \in WrittenTeams) =>
            /\ call'.resp.stats = teams[call.data.teamId].stats
            /\ teams'[call.data.teamId].stats = teams[call.data.teamId].stats
      ]_vars

\* A second run for a team is about to write the stats the first run stored.
C13_Witness ==
    /\ call.pc = "update"
    /\ SubjectTeam \in WrittenTeams
    /\ call.stats.matchesPlayed = 2
    /\ call.stats = teams[SubjectTeam].stats

\* The orders in which the match documents can be returned.
MatchOrders ==
    {o \in [1..Len(MatchOrder) -> MatchIds] : \A m \in MatchIds : \E i \in DOMAIN o : o[i] = m}

\* The stats computed for team t when the queries return the documents in order o.
StatsInOrder(coll, o, t) ==
    ComputeStats(Snapshot(coll, o, "homeTeamId", t), Snapshot(coll, o, "awayTeamId", t))

\* C14: the stats computed for a team are the same in whatever order the
\* queries return the match documents.
C14_OrderIndependent ==
    HasStats => \A o \in MatchOrders : call.stats = StatsInOrder(matches, o, SubjectTeam)

\* A successful invocation for a team with two different home results.
C14_Witness ==
    /\ call.pc = "done" /\ call.resp.success
    /\ Len(call.homeDocs) = 2
    /\ call.homeDocs[1].result # call.homeDocs[2].result
    /\ call.homeDocs[1].result.present /\ call.homeDocs[2].result.present

\* Stats a and b mirror each other.
Mirrored(a, b) ==
    /\ a.wins = b.losses /\ a.losses = b.wins /\ a.draws = b.draws
    /\ a.goalsFor = b.goalsAgainst /\ a.goalsAgainst = b.goalsFor

\* The collection that holds document m of coll alone.
Single(coll, m) == [x \in MatchIds |-> IF x = m THEN coll[m] ELSE NoDoc]

\* C15: a finished match with a result contributes to the aggregates of its
\* home and its away team in mirrored ways: a win of one is a loss of the
\* other, a draw is a draw of both, goalsFor of one is goalsAgainst of the other.
C15_MirroredContributions ==
    /\ \A m \in MatchIds :
          (matches[m] # NoDoc /\ matches[m].status = "finished" /\ matches[m].result.present) =>
              LET a == StatsFor(Single(matches, m), matches[m].homeTeamId)
                  b == StatsFor(Single(matches, m), matches[m].awayTeamId)
                  r == matches[m].result
              IN  /\ Mirrored(a, b)
                  /\ a.matchesPlayed = 1 /\ b.matchesPlayed = 1
                  /\ a.goalsFor = r.homeGoals /\ a.goalsAgainst = r.awayGoals
                  /\ a.wins = 1 <=> r.homeGoals > r.awayGoals
                  /\ a.draws = 1 <=> r.homeGoals = r.awayGoals
    /\ \A a, b \in WrittenTeams : a # b => Mirrored(teams[a].stats, teams[b].stats)

\* Both teams have been aggregated: a 1:0 home win of one, the loss of the other.
C15_Witness ==
    /\ WrittenTeams = TeamIds
    /\ \E a, b \in TeamIds :
          /\ teams[a].stats.wins = 1 /\ teams[b].stats.losses = 1
          /\ teams[a].stats.goalsFor = 1 /\ teams[b].stats.goalsAgainst = 1
          /\ teams[a].stats.matchesPlayed = 1

\* No finished match names team t as home or away team.
NoFinishedMatch(t) ==
    \A m \in MatchIds :
        \/ matches[m] = NoDoc
        \/ matches[m].status # "finished"
        \/ t \notin {matches[m].homeTeamId, matches[m].awayTeamId}

\* The seven numbers of a stats value are zero.
AllZero(stats) ==
    /\ stats.matchesPlayed = 0 /\ stats.wins = 0 /\ stats.draws = 0 /\ stats.losses = 0
    /\ stats.goalsFor = 0 /\ stats.goalsAgainst = 0 /\ stats.points = 0

\* C16: a successful invocation for a team that no finished match references
\* returns and stores zeros, whatever was stored before.
C16_NoMatchesAllZero ==
    (call.pc = "done" /\ call.resp.success /\ NoFinishedMatch(SubjectTeam)) =>
        /\ AllZero(call.resp.stats)
        /\ AllZero(teams[SubjectTeam].stats)

\* The seeded team, whose stored stats were not zero, has been aggregated
\* while its only matches are not finished.
C16_Witness ==
    /\ call.pc = "done" /\ call.resp.success
    /\ SubjectTeam = "t1"
    /\ NoFinishedMatch("t1")
    /\ \E m \in MatchIds : matches[m] # NoDoc /\ matches[m].result.present
    /\ teams["t1"].updatedAt = Now

\* C17: the currentStreak of every stats value an invocation computes or has
\* written is { type: 'win', count: 0 }.
C17_StreakIsStub ==
    /\ HasStats => call.stats.currentStreak = [type |-> "win", count |-> 0]
    /\ \A t \in WrittenTeams : teams[t].stats.currentStreak = [type |-> "win", count |-> 0]

\* Stats written for a team that lost its two matches.
C17_Witness ==
    /\ call.pc = "done" /\ call.resp.success
    /\ teams[SubjectTeam].stats.losses = 2
    /\ teams[SubjectTeam].stats.currentStreak.type = "win"

\* C12: the step of a successful run changes nothing but the stats and the
\* updatedAt of the requested team: its other fields, the other teams, the
\* matches, the memberships, the clubs and the users stay as they were.
C12_OnlyStatsAndTimestamp ==
    [][ SuccessStep =>
            /\ DOMAIN teams' = DOMAIN teams
            /\ [teams'[SubjectTeam] EXCEPT !.stats = teams[SubjectTeam].stats,
                                           !.updatedAt = teams[SubjectTeam].updatedAt]
                   = teams[SubjectTeam]
            /\ \A t \in TeamIds \ {SubjectTeam} : teams'[t] = teams[t]
            /\ matches' = matches
            /\ members' = members
            /\ clubs' = clubs
            /\ users' = users
      ]_vars

\* A run has replaced the seeded stats of team t1 and stamped the document.
C12_Witness ==
    /\ call.pc = "done" /\ call.resp.success
    /\ SubjectTeam = "t1"
    /\ teams["t1"].stats = call.resp.stats
    /\ teams["t1"].stats # SeedStats
    /\ teams["t1"].updatedAt = Now
    /\ teams["t1"].version = InitTeams["t1"].version
    /\ teams["t2"] = InitTeams["t2"]

\* ------------------------------------------------------------------------
\* Claims about createClub, joinClub and the unauthenticated caller
\* ------------------------------------------------------------------------

\* C18: an invocation of createClub, joinClub or calculateTeamStats without an
\* authenticated caller fails with 'unauthenticated' and issues no store
\* operation.
C18_UnauthenticatedEverywhere ==
    /\ (call.pc = "done" /\ call.auth = NoAuth) =>
           call.resp.code = "unauthenticated" /\ call.ops = {}
    /\ (join.pc = "done" /\ join.auth = NoAuth) =>
           join.resp.code = "unauthenticated" /\ join.ops = {}
    /\ \A c \in {create, parkedCreate} :
           (c.pc = "done" /\ c.auth = NoAuth) =>
               c.resp.code = "unauthenticated" /\ c.ops = {}

\* The users whose document lists club c among their clubMemberships.
ListedBy(c) == {u \in UserIds : \E e \in users[u].clubMemberships : e.clubId = c}

\* C19: of a club id createClub may draw, the club document, the creator's
\* active membership and the creator's clubMemberships entry exist together or
\* not at all; a finished invocation reports success exactly when they exist,
\* and no club exists whose creator has no user document.
C19_AllOrNothing ==
    /\ \A c \in NewClubIds :
          \/ c \notin DOMAIN clubs /\ c \notin DOMAIN members /\ ListedBy(c) = {}
          \/ /\ c \in DOMAIN clubs /\ c \in DOMAIN members
             /\ members[c][clubs[c].createdBy] = "active"
             /\ ListedBy(c) = {clubs[c].createdBy}
             /\ [clubId |-> c, role |-> AdminRole] \in users[clubs[c].createdBy].clubMemberships
             /\ users[clubs[c].createdBy].exists
    /\ \A c \in {create, parkedCreate} :
          c.pc = "done" =>
              /\ c.resp.success <=> c.clubId \in DOMAIN clubs
              /\ c.resp.success => clubs[c.clubId].createdBy = c.auth

\* One invocation has created a club with its membership and its entry; the
\* invocation of a caller without user document has failed at the commit and
\* has left nothing of its club.
C19_Witness ==
    /\ \E c \in NewClubIds :
          /\ c \in DOMAIN clubs
          /\ members[c][clubs[c].createdBy] = "active"
          /\ ListedBy(c) = {clubs[c].createdBy}
    /\ create.pc = "done" /\ create.fault = "batch.commit"
    /\ create.auth # NoAuth /\ ~users[create.auth].exists
    /\ create.clubId \in NewClubIds
    /\ create.clubId \notin DOMAIN clubs /\ create.clubId \notin DOMAIN members

\* C20: no two club documents that createClub wrote have the same slug.
C20_UniqueSlugs ==
    \A a, b \in DOMAIN clubs \cap NewClubIds : a # b => clubs[a].slug # clubs[b].slug

\* ------------------------------------------------------------------------
\* Claims about interleaved invocations
\* ------------------------------------------------------------------------

\* The step in which an invocation's update is applied.
WriteStep == SuccessStep /\ parked' = parked

\* An invocation has completed with success.
Completed(c) == c.pc = "done" /\ c.resp.success

\* C11: a write stores the stats its invocation computed, whatever is stored
\* and whatever the matches are by then, and nothing else changes a team's
\* stats; so once both invocations have completed, the stored stats are those
\* of the one that wrote last.
C11_LastWriteWins ==
    /\ [](Completed(call) /\ Completed(parked) =>
              teams["t1"].stats \in {call.stats, parked.stats})
    /\ [][ /\ WriteStep => /\ teams'[SubjectTeam].stats = call.stats
                           /\ call'.resp.stats = call.stats
           /\ teams' # teams => WriteStep
         ]_vars

\* Both invocations have completed.  One read the matches before a fixture
\* was finished and wrote last: its stats are stored, not those of the other,
\* which counted more matches and has the stats of the matches as they are.
C11_Witness ==
    /\ Completed(call) /\ Completed(parked)
    /\ call.stats.matchesPlayed < parked.stats.matchesPlayed
    /\ parked.stats = StatsFor(matches, "t1")
    /\ teams["t1"].stats = call.stats
    /\ teams["t1"].stats # StatsFor(matches, "t1")

\* ------------------------------------------------------------------------
\* Claims about joinClub
\* ------------------------------------------------------------------------

\* A joinClub invocation has ended with an error.
JoinFailed(j) == j.pc = "done" /\ ~j.resp.success

\* The invocation got past getAuthContext and joinClubSchema.parse.
JoinRequestValid(j) == j.auth # NoAuth /\ j.data.valid

\* The writes of joinClub.
JoinWrites == {"members.set", "clubs.update"}

\* C21: a joinClub invocation that ends with an error has left the club's
\* members as they were: where it issued the membership write, having read
\* that the caller has no membership document, the caller still has none.
C21_FailedJoinChangesNothing ==
    (JoinFailed(join) /\ "members.set" \in join.ops) =>
        members[join.data.clubId][join.auth] = NoMember

\* The users with a membership document in club c.
MemberDocs(c) == {u \in UserIds : members[c][u] # NoMember}

\* The membership documents and the memberCount club c had when the store was
\* seeded; a club that createClub writes had none.
SeededDocs(c) ==
    IF c \in ClubIds THEN Cardinality({u \in UserIds : InitClubMembers[c][u] # NoMember}) ELSE 0

SeededCount(c) == IF c \in ClubIds THEN InitClubs[c].memberCount ELSE 0

\* No createClub and no joinClub invocation is under way.
AllCompleted ==
    \A c \in {create, parkedCreate, join, parkedJoin} : c.pc \in {"idle", "done"}

\* C22: once the invocations have completed, every club's memberCount has
\* grown by the number of membership documents the club has gained, and the
\* memberCount of a club that createClub wrote is the number of its documents.
C22_MemberCountMatchesDocs ==
    AllCompleted =>
        \A c \in DOMAIN clubs :
            clubs[c].memberCount - SeededCount(c) = Cardinality(MemberDocs(c)) - SeededDocs(c)

\* A joinClub invocation has returned { success: true, ... }.
JoinSucceeded(j) == j.pc = "done" /\ j.resp.success

\* C23: after a successful joinClub the caller's membership is 'pending'
\* without approvedAt where the club requires approval, 'active' with
\* approvedAt = now where it does not; the response carries the stored status
\* and the club's requireApproval.
C23_JoinedAsClubRequires ==
    JoinSucceeded(join) =>
        LET c == join.data.clubId
            u == join.auth
        IN  /\ join.resp.requiresApproval = clubs[c].requireApproval
            /\ join.resp.status = members[c][u]
            /\ clubs[c].requireApproval => members[c][u] = "pending" /\ approvedAt[c][u] = Undefined
            /\ ~clubs[c].requireApproval => members[c][u] = "active" /\ approvedAt[c][u] = Now

\* User u3 has joined the club that requires approval and is pending there,
\* and has now joined the club that does not and is active.
C23_Witness ==
    /\ JoinSucceeded(join) /\ join.auth = "u3" /\ join.data.clubId = "c1"
    /\ members["c1"]["u3"] = "active" /\ approvedAt["c1"]["u3"] = Now
    /\ members["c2"]["u3"] = "pending" /\ approvedAt["c2"]["u3"] = Undefined
    /\ join.resp.status = "active" /\ ~join.resp.requiresApproval

\* The caller of invocation j has a membership document in the club that j
\* did not write: the caller was a member before.
WasMember(j) ==
    /\ JoinRequestValid(j)
    /\ j.data.clubId \in DOMAIN members
    /\ members[j.data.clubId][j.auth] # NoMember
    /\ "members.set" \notin j.ops

\* C24 as claimed: a joinClub by a user who was a member already, no store
\* read failing, ends with 'already-exists' and has issued no write.
C24_MemberAlreadyExists ==
    (join.pc = "done" /\ WasMember(join) /\ join.fault = "none") =>
        /\ join.resp.code = "already-exists"
        /\ join.ops \cap JoinWrites = {}

\* C24: a joinClub by a user who was a member already, no store read failing,
\* ends with 'already-exists' where the club allows registration and with
\* 'permission-denied' where it does not.  Failing or not, it issues no write:
\* the membership write is only ever under way for a caller without membership
\* document, and nothing but that write and the update after it changes a
\* membership or a memberCount during a joinClub.
C24_ExistingMemberRejected ==
    /\ [](join.pc = "done" /\ WasMember(join) =>
              /\ ~join.resp.success
              /\ join.ops \cap JoinWrites = {}
              /\ join.fault = "none" =>
                     join.resp.code = IF clubs[join.data.clubId].allowRegistration
                                      THEN "already-exists" ELSE "permission-denied")
    /\ [](join.pc = "setMember" => members[join.data.clubId][join.auth] = NoMember)
    /\ [][ (join' # join /\ <<members, approvedAt, clubs>>' # <<members, approvedAt, clubs>>) =>
               join.pc \in {"setMember", "updateCount"}
         ]_vars

\* A user whose membership in an open club is pending has called joinClub again
\* and got 'already-exists'; the creator of a club has called joinClub for it
\* before and the club is closed.
C24_Witness ==
    /\ join.pc = "done" /\ WasMember(join)
    /\ members[join.data.clubId][join.auth] = "pending"
    /\ join.resp.code = "already-exists"
    /\ clubs[join.data.clubId].memberCount = InitClubs[join.data.clubId].memberCount

\* C25: a joinClub for a club that does not exist ends with 'not-found', one
\* for a club whose allowRegistration is false with 'permission-denied' (unless
\* the club read itself failed), and neither issues more than the club read;
\* every club createClub wrote has allowRegistration false.
C25_ClosedOrMissingClub ==
    /\ \A c \in NewClubIds \cap DOMAIN clubs : ~clubs[c].allowRegistration
    /\ (join.pc = "done" /\ JoinRequestValid(join)) =>
           LET c == join.data.clubId
           IN  /\ c \notin DOMAIN clubs =>
                      /\ join.ops = {"clubs.get"}
                      /\ join.fault = "none" => join.resp.code = "not-found"
               /\ (c \in DOMAIN clubs /\ ~clubs[c].allowRegistration) =>
                      /\ join.ops = {"clubs.get"}
                      /\ join.fault = "none" => join.resp.code = "permission-denied"

\* A user who did not create it has called joinClub for a club createClub
\* wrote and got 'permission-denied'; nothing of the club has changed.
C25_Witness ==
    /\ join.pc = "done" /\ join.auth \in UserIds
    /\ join.data.clubId \in NewClubIds \cap DOMAIN clubs
    /\ join.auth # clubs[join.data.clubId].createdBy
    /\ join.resp.code = "permission-denied"
    /\ members[join.data.clubId][join.auth] = NoMember
    /\ clubs[join.data.clubId].memberCount = 1

\* ------------------------------------------------------------------------
\* Claims about onMatchCompleted
\* ------------------------------------------------------------------------

\* The clubs of the home and of the away team of a match document.
MatchClubs(doc) == {teams[doc.homeTeamId].clubId, teams[doc.awayTeamId].clubId}

\* The clubs in a sequence of club ids.
Range(seq) == {seq[i] : i \in DOMAIN seq}

\* C26: when the handler of an update has ended, it has incremented the
\* matchCount of the club of the home team and of the club of the away team,
\* once each, if the update took the status from a non-finished value to
\* 'finished', and of no club otherwise.
C26_CountsCompletedMatches ==
    trigger.pc = "done" =>
        IF JustCompleted(trigger.before, trigger.after)
        THEN /\ Range(trigger.updated) = MatchClubs(trigger.after)
             /\ Len(trigger.updated) = Cardinality(MatchClubs(trigger.after))
        ELSE trigger.updated = <<>>

\* ------------------------------------------------------------------------
\* Claims about AuthProvider
\* ------------------------------------------------------------------------

\* C27: while no handler of an auth-state change is in flight, the context's
\* user is null exactly if the Firebase user that the most recent auth-state
\* change delivered is null.
C27_UserFollowsAuthState ==
    (provider.delivered /\ provider.handlers = <<>>) =>
        (provider.user = NullUser <=> provider.firebaseUser = NullUser)

====
